---- MODULE Spec2Model ----
(***************************************************************************)
(* Model of the encodec command-line driver (src/encodec/__main__.py):     *)
(* main() as a state machine over the parsed arguments, the file system,   *)
(* the diagnostics printed, the external operations invoked (codec and     *)
(* audio I/O) and the files written.                                       *)
(*                                                                         *)
(* A file name is a sequence of one-character strings, so that the         *)
(* pathlib operations the driver relies on (suffix, stem, with_name,       *)
(* with_suffix, str.lower) are computed character by character.            *)
(* A path is a record [dir, name]: the parent directory and the final      *)
(* component.                                                              *)
(*                                                                         *)
(* The elapsed-time report of --time (lines 114-115 and 177-181) only      *)
(* prints to the output stream and is left out.  The external operations   *)
(* (codec, torchaudio, torch.save) return normally.                        *)
(***************************************************************************)
EXTENDS Integers, Sequences, FiniteSets, TLC

VARIABLES
    args,       \* the argparse namespace; args.output is assigned by main
    fs,         \* the set of paths that exist
    pc,         \* position in main()
    branch,     \* which arm of the `if` at line 126 is running
    device,     \* the compute device chosen at lines 121-124
    model,      \* the instantiated codec model, or NoModel
    mx,         \* peak absolute magnitude of the decoded waveform (1/100)
    ops,        \* external operations invoked so far, in order
    writes,     \* files written so far, in order
    stderr,     \* diagnostics printed to the error stream, in order
    exit_code   \* -1 while running, then the process's exit status

vars == <<args, fs, pc, branch, device, model, mx, ops, writes, stderr, exit_code>>

-----------------------------------------------------------------------------
(* Bounds of the model *)

\* longest stem (the part of the input name before its extension)
MaxStem == 1

-----------------------------------------------------------------------------
(* Characters and strings *)

\* str.lower() on one character
LowerChar(c) ==
    CASE c = "E" -> "e"
      [] c = "C" -> "c"
      [] c = "D" -> "d"
      [] c = "W" -> "w"
      [] c = "A" -> "a"
      [] c = "V" -> "v"
      [] OTHER -> c

\* a comparison that forgets .lower(): the string as it is
LowerForgotten(s) == s

\* str.lower()
Lower(s) == [i \in DOMAIN s |-> LowerChar(s[i])]

\* SUFFIX = ".ecdc"
SUFFIX == <<".", "e", "c", "d", "c">>

WAV == <<".", "w", "a", "v">>

PT == <<".", "p", "t">>

\* str.rfind('.') + 1: the position of the last dot, 0 when there is none
LastDot(name) ==
    LET dots == {i \in DOMAIN name : name[i] = "."}
    IN  IF dots = {} THEN 0 ELSE CHOOSE i \in dots : \A j \in dots : j <= i

\* PurePath.suffix: the final component's last extension, dot included; a
\* leading dot (hidden file) or a trailing dot does not start an extension
PathSuffix(name) ==
    LET i == LastDot(name)
    IN  IF 1 < i /\ i < Len(name) THEN SubSeq(name, i, Len(name)) ELSE <<>>

\* PurePath.stem: the final component without its suffix
PathStem(name) ==
    LET i == LastDot(name)
    IN  IF 1 < i /\ i < Len(name) THEN SubSeq(name, 1, i - 1) ELSE name

\* the result of a pathlib call that raised ValueError
Raised == [err |-> TRUE, path |-> [dir |-> "none", name |-> <<>>]]

Returned(p) == [err |-> FALSE, path |-> p]

\* PurePath.with_name(name): ValueError when the path has an empty name or
\* the new name is empty or "."
WithName(p, name) ==
    IF p.name = <<>> \/ name = <<>> \/ name = <<".">>
    THEN Raised
    ELSE Returned([dir |-> p.dir, name |-> name])

\* PurePath.with_suffix(suffix): ValueError when the path has an empty name;
\* the old suffix is replaced, or the new one appended when there is none
WithSuffix(p, suffix) ==
    IF p.name = <<>>
    THEN Raised
    ELSE Returned([dir |-> p.dir, name |-> PathStem(p.name) \o suffix])

\* args.output.suffix.lower()
OutExt(a) == Lower(PathSuffix(a.output.name))

\* args.input.suffix.lower()
InExt(a) == Lower(PathSuffix(a.input.name))

-----------------------------------------------------------------------------
(* The command line and the environment *)

\* args.output is None
NoOutput == [dir |-> "none", name |-> <<>>]

NoModel == [name |-> "none", target_bandwidth |-> 0]

\* directories that exist / the one that does not
ExistingDirs == {"d"}

Dirs == {"d", "nodir"}

\* choices=[1.5, 3.0, 6.0, 12.0, 24.0], in units of 0.1 kbps
Bandwidths == {15, 30, 60, 120, 240}

\* model.target_bandwidths of the model MODELS[model_name]() builds
TargetBandwidths(model_name) ==
    IF model_name = "encodec_48khz" THEN {30, 60, 120, 240} ELSE {15, 30, 60, 120, 240}

RECURSIVE SeqsUpTo(_, _)
\* all sequences over S of length at most n
SeqsUpTo(S, n) ==
    IF n = 0 THEN {<<>>}
    ELSE LET shorter == SeqsUpTo(S, n - 1)
         IN  shorter \cup {Append(s, c) : s \in {t \in shorter : Len(t) = n - 1}, c \in S}

Stems == SeqsUpTo({"a", "."}, MaxStem)

InputExts == {<<>>, SUFFIX, <<".", "E", "C", "D", "C">>, WAV}

\* the final components that can name a file: pathlib collapses ".", and
\* the empty name and ".." name directories
InputNames == {s \o e : s \in Stems, e \in InputExts} \ {<<>>, <<".">>, <<".", ".">>}

OutputNames ==
    {<<"a">> \o e : e \in {SUFFIX, WAV, <<".", "W", "A", "V">>, PT, <<".", "m", "p", "3">>}}

Outputs == {NoOutput} \cup {[dir |-> d, name |-> n] : d \in Dirs, n \in OutputNames}

DecompressSuffixes == {<<"_", "d">>, <<".", "d">>, <<>>}

\* peak magnitudes a decode can yield, in hundredths
Peaks == {99, 120}

-----------------------------------------------------------------------------
(* Output derivation *)

\* args.input.with_name(args.input.stem + args.decompress_suffix).with_suffix(".wav")
DecompressDefault(a) ==
    LET named == WithName(a.input, PathStem(a.input.name) \o a.decompress_suffix)
    IN  IF named.err THEN Raised ELSE WithSuffix(named.path, WAV)

\* args.input.with_suffix(SUFFIX)
CompressDefault(a) == WithSuffix(a.input, SUFFIX)

\* the output paths an invocation can name: the one given, or the one derived
CandidateOutputs(a) ==
    IF a.output # NoOutput THEN {a.output}
    ELSE LET r == IF InExt(a) = SUFFIX THEN DecompressDefault(a) ELSE CompressDefault(a)
         IN  IF r.err THEN {} ELSE {r.path}

-----------------------------------------------------------------------------
(* Initial state: the namespace parse_args() returns, and the file system *)

Args ==
    [input : {[dir |-> "d", name |-> n] : n \in InputNames},
     output : Outputs,
     bandwidth : Bandwidths,
     hq : BOOLEAN,
     lm : BOOLEAN,
     force : BOOLEAN,
     decompress_suffix : DecompressSuffixes,
     rescale : BOOLEAN,
     gpu : BOOLEAN]

Init ==
    /\ args \in Args
    /\ fs \in SUBSET {p \in {args.input} \cup CandidateOutputs(args) : p.dir \in ExistingDirs}
    /\ pc = "check_input"
    /\ branch = "none"
    /\ device = "none"
    /\ model = NoModel
    /\ mx = 0
    /\ ops = <<>>
    /\ writes = <<>>
    /\ stderr = <<>>
    /\ exit_code = -1

-----------------------------------------------------------------------------
(* Leaving the process *)

\* fatal(*args): print to stderr, sys.exit(1)
fatal(msg) ==
    /\ stderr' = Append(stderr, msg)
    /\ exit_code' = 1
    /\ pc' = "exited"

\* an uncaught exception: the interpreter prints the traceback and exits 1
Uncaught(exc) ==
    /\ stderr' = Append(stderr, exc)
    /\ exit_code' = 1
    /\ pc' = "exited"

-----------------------------------------------------------------------------
(* The conditions main() branches on *)

\* line 117: not args.input.exists()
InputMissing(a, files) == a.input \notin files

\* line 126: args.input.suffix.lower() == SUFFIX
IsDecompression(a) == InExt(a) = SUFFIX

\* the compression branch's list of extensions, pasted into decompression
BadDecompressExtPasted(a) == OutExt(a) \notin {SUFFIX, WAV, <<".", "p", "t">>}

\* line 132: args.output.suffix.lower() != ".wav"
BadDecompressExt(a) == OutExt(a) # WAV

\* the list of legal extensions without ".pt"
BadCompressExtNoEmbedding(a) == OutExt(a) \notin {SUFFIX, WAV}

\* line 144: args.output.suffix.lower() not in [SUFFIX, ".wav", ".pt"]
BadCompressExt(a) == OutExt(a) \notin {SUFFIX, WAV, PT}

\* the parent of the input tested in place of the parent of the output
OutputFolderMissingOfInput(a) == a.input.dir \notin ExistingDirs

\* line 92: not args.output.parent.exists()
OutputFolderMissing(a) == a.output.dir \notin ExistingDirs

\* the force flag read the wrong way round
OutputBlockedWhenForced(a, files) == a.output \in files /\ a.force

\* line 94: args.output.exists() and not args.force
OutputBlocked(a, files) == a.output \in files /\ ~a.force

\* line 148: "encodec_48khz" if args.hq else "encodec_24khz"
ModelName(a) == IF a.hq THEN "encodec_48khz" ELSE "encodec_24khz"

\* the bandwidth tested against the command line's choices, not the model's
BandwidthUnsupportedByParser(a, m) == a.bandwidth \notin Bandwidths

\* line 150: args.bandwidth not in model.target_bandwidths
BandwidthUnsupported(a, m) == a.bandwidth \notin TargetBandwidths(m.name)

\* limit = 0.99, in hundredths
limit == 99

\* the comparison with the limit made inclusive
ClippingAtLimit(a, peak) == ~a.rescale /\ peak >= limit

\* lines 99-103: no rescale, and the peak is above the limit
Clipping(a, peak) == ~a.rescale /\ peak > limit

\* line 159: args.output.suffix.lower() == SUFFIX
IsBitstreamOutput(a) == OutExt(a) = SUFFIX

\* the dispatch without its embedding arm
IsEmbeddingOutputNever(a) == FALSE

\* line 162: args.output.suffix.lower() == ".pt"
IsEmbeddingOutput(a) == OutExt(a) = PT

\* line 169: args.output.suffix.lower() == ".wav"
IsWavOutput(a) == OutExt(a) = WAV

\* line 158: compress(model, wav, use_lm=args.lm, device=device)
CompressCall(a) == IF a.lm THEN "compress_lm" ELSE "compress"

-----------------------------------------------------------------------------
(* main() *)

\* lines 117-126: the input must exist; then the device is chosen and the
\* input's suffix selects decompression or compression
CheckInput ==
    /\ pc = "check_input"
    /\ IF InputMissing(args, fs)
       THEN /\ fatal("input_missing")
            /\ UNCHANGED <<device, branch>>
       ELSE /\ device' = IF args.gpu THEN "cuda_or_cpu" ELSE "cpu"
            /\ branch' = IF IsDecompression(args) THEN "decompress" ELSE "compress"
            /\ pc' = "resolve_output"
            /\ UNCHANGED <<stderr, exit_code>>
    /\ UNCHANGED <<args, fs, model, mx, ops, writes>>

\* lines 127-133: decompression; the output defaults to
\* <stem><decompress_suffix> with its suffix set to .wav, or must be a .wav
ResolveDecompress ==
    /\ pc = "resolve_output"
    /\ branch = "decompress"
    /\ IF args.output = NoOutput
       THEN LET r == DecompressDefault(args)
            IN  IF r.err
                THEN Uncaught("ValueError") /\ UNCHANGED args
                ELSE /\ args' = [args EXCEPT !.output = r.path]
                     /\ pc' = "check_output_exists"
                     /\ UNCHANGED <<stderr, exit_code>>
       ELSE IF BadDecompressExt(args)
            THEN fatal("output_extension_must_be_wav") /\ UNCHANGED args
            ELSE /\ pc' = "check_output_exists"
                 /\ UNCHANGED <<args, stderr, exit_code>>
    /\ UNCHANGED <<fs, branch, device, model, mx, ops, writes>>

\* lines 140-145: compression; the output defaults to the input with its
\* suffix set to SUFFIX, or must be a .ecdc, a .wav or a .pt
ResolveCompress ==
    /\ pc = "resolve_output"
    /\ branch = "compress"
    /\ IF args.output = NoOutput
       THEN LET r == CompressDefault(args)
            IN  IF r.err
                THEN Uncaught("ValueError") /\ UNCHANGED args
                ELSE /\ args' = [args EXCEPT !.output = r.path]
                     /\ pc' = "check_output_exists"
                     /\ UNCHANGED <<stderr, exit_code>>
       ELSE IF BadCompressExt(args)
            THEN fatal("output_extension_must_be_wav_pt_or_ecdc") /\ UNCHANGED args
            ELSE /\ pc' = "check_output_exists"
                 /\ UNCHANGED <<args, stderr, exit_code>>
    /\ UNCHANGED <<fs, branch, device, model, mx, ops, writes>>

\* lines 91-95, called at 134 and 146
check_output_exists ==
    /\ pc = "check_output_exists"
    /\ IF OutputFolderMissing(args)
       THEN fatal("output_folder_does_not_exist")
       ELSE IF OutputBlocked(args, fs)
            THEN fatal("output_file_exists")
            ELSE /\ pc' = IF branch = "decompress" THEN "decompress" ELSE "load_model"
                 /\ UNCHANGED <<stderr, exit_code>>
    /\ UNCHANGED <<args, fs, branch, device, model, mx, ops, writes>>

\* line 135: decompress(args.input.read_bytes(), device=device)
Decompress ==
    /\ pc = "decompress"
    /\ \E peak \in Peaks : mx' = peak
    /\ ops' = ops \o <<"read_bytes", "decode">>
    /\ pc' = "check_clipping"
    /\ UNCHANGED <<args, fs, branch, device, model, writes, stderr, exit_code>>

\* lines 98-108, called at 136 and 171: a warning, never an exit
check_clipping ==
    /\ pc = "check_clipping"
    /\ ops' = Append(ops, "check_clipping")
    /\ stderr' = IF Clipping(args, mx) THEN Append(stderr, "clipping") ELSE stderr
    /\ pc' = "save_audio"
    /\ UNCHANGED <<args, fs, branch, device, model, mx, writes, exit_code>>

\* lines 137-139 and 172-174: save_audio(out, args.output, ..., rescale=args.rescale)
SaveAudio ==
    /\ pc = "save_audio"
    /\ ops' = Append(ops, "save_audio")
    /\ writes' = Append(writes, [path |-> args.output, kind |-> "audio"])
    /\ fs' = fs \cup {args.output}
    /\ pc' = "finish"
    /\ UNCHANGED <<args, branch, device, model, mx, stderr, exit_code>>

\* lines 148-149: model = MODELS[model_name]()
LoadModel ==
    /\ pc = "load_model"
    /\ model' = [name |-> ModelName(args), target_bandwidth |-> 0]
    /\ ops' = Append(ops, "model")
    /\ pc' = "check_bandwidth"
    /\ UNCHANGED <<args, fs, branch, device, mx, writes, stderr, exit_code>>

\* lines 150-154: the bandwidth must be one the model supports; then it is set
CheckBandwidth ==
    /\ pc = "check_bandwidth"
    /\ IF BandwidthUnsupported(args, model)
       THEN fatal("bandwidth_not_supported") /\ UNCHANGED <<model, ops>>
       ELSE /\ model' = [model EXCEPT !.target_bandwidth = args.bandwidth]
            /\ ops' = Append(ops, "set_target_bandwidth")
            /\ pc' = "encode"
            /\ UNCHANGED <<stderr, exit_code>>
    /\ UNCHANGED <<args, fs, branch, device, mx, writes>>

\* lines 156-158: torchaudio.load, convert_audio, compress, whatever the output
Encode ==
    /\ pc = "encode"
    /\ ops' = ops \o <<"load", "convert_audio", CompressCall(args)>>
    /\ pc' = "dispatch"
    /\ UNCHANGED <<args, fs, branch, device, model, mx, writes, stderr, exit_code>>

\* lines 159-160: args.output.write_bytes(compressed)
WriteBitstream ==
    /\ pc = "dispatch"
    /\ IsBitstreamOutput(args)
    /\ ops' = Append(ops, "write_bytes")
    /\ writes' = Append(writes, [path |-> args.output, kind |-> "bitstream"])
    /\ fs' = fs \cup {args.output}
    /\ pc' = "finish"
    /\ UNCHANGED <<args, branch, device, model, mx, stderr, exit_code>>

\* lines 162-166: emb = model.encoder(...); torch.save(emb, args.output)
SaveEmbedding ==
    /\ pc = "dispatch"
    /\ ~IsBitstreamOutput(args)
    /\ IsEmbeddingOutput(args)
    /\ ops' = ops \o <<"encoder", "torch_save">>
    /\ writes' = Append(writes, [path |-> args.output, kind |-> "embedding"])
    /\ fs' = fs \cup {args.output}
    /\ pc' = "finish"
    /\ UNCHANGED <<args, branch, device, model, mx, stderr, exit_code>>

\* lines 167-170: assert the output is a .wav, then decompress(compressed)
RoundTripDecode ==
    /\ pc = "dispatch"
    /\ ~IsBitstreamOutput(args)
    /\ ~IsEmbeddingOutput(args)
    /\ IF ~IsWavOutput(args)
       THEN Uncaught("AssertionError") /\ UNCHANGED <<ops, mx>>
       ELSE /\ \E peak \in Peaks : mx' = peak
            /\ ops' = Append(ops, "decode")
            /\ pc' = "check_clipping"
            /\ UNCHANGED <<stderr, exit_code>>
    /\ UNCHANGED <<args, fs, branch, device, model, writes>>

\* lines 176-181: main returns and the process exits with status 0
Finish ==
    /\ pc = "finish"
    /\ exit_code' = 0
    /\ pc' = "exited"
    /\ UNCHANGED <<args, fs, branch, device, model, mx, ops, writes, stderr>>

Next ==
    \/ CheckInput
    \/ ResolveDecompress
    \/ ResolveCompress
    \/ check_output_exists
    \/ Decompress
    \/ check_clipping
    \/ SaveAudio
    \/ LoadModel
    \/ CheckBandwidth
    \/ Encode
    \/ WriteBitstream
    \/ SaveEmbedding
    \/ RoundTripDecode
    \/ Finish

Spec == Init /\ [][Next]_vars

-----------------------------------------------------------------------------
(* Vocabulary of the properties, stated apart from the operators above *)

\* the final extension of a name: from its last dot, when that dot is neither
\* the first nor the last character
ExtensionOf(name) ==
    LET starts == {k \in 2..(Len(name) - 1) :
                     name[k] = "." /\ \A j \in (k + 1)..Len(name) : name[j] # "."}
    IN  IF starts = {} THEN <<>> ELSE SubSeq(name, CHOOSE k \in starts : TRUE, Len(name))

\* .ecdc, .wav and .pt in every letter case
BitstreamExts ==
    {<<".", e, c, d, k>> : e \in {"e", "E"}, c \in {"c", "C"}, d \in {"d", "D"}, k \in {"c", "C"}}

WavExts == {<<".", w, a, v>> : w \in {"w", "W"}, a \in {"a", "A"}, v \in {"v", "V"}}

EmbeddingExts == {<<".", q, t>> : q \in {"p", "P"}, t \in {"t", "T"}}

InputIsBitstream == ExtensionOf(args.input.name) \in BitstreamExts

OutputResolved == args.output # NoOutput

OutputExtension == ExtensionOf(args.output.name)

\* the extensions the selected mode accepts for its output
LegalOutputExts ==
    IF InputIsBitstream THEN WavExts ELSE BitstreamExts \cup WavExts \cup EmbeddingExts

\* the bandwidths each model supports: 1.5 is not supported with --hq
SupportedBy(hq) == IF hq THEN {30, 60, 120, 240} ELSE {15, 30, 60, 120, 240}

Invoked(op) == \E i \in DOMAIN ops : ops[i] = op

Printed(msg) == \E i \in DOMAIN stderr : stderr[i] = msg

Wrote(kind) == \E i \in DOMAIN writes : writes[i].kind = kind

ValidationDiagnostics ==
    {"input_missing", "output_extension_must_be_wav",
     "output_extension_must_be_wav_pt_or_ecdc", "output_folder_does_not_exist",
     "output_file_exists", "bandwidth_not_supported"}

\* the run ended in fatal()
ValidationFailure ==
    /\ pc = "exited"
    /\ stderr # <<>>
    /\ stderr[Len(stderr)] \in ValidationDiagnostics

\* the positions of main() up to and including check_output_exists
BeforePipeline == pc \in {"check_input", "resolve_output", "check_output_exists"}

\* the checks, each as a condition on the invocation
InputCheckFails == args.input \notin fs

ExtensionCheckFails == OutputResolved /\ OutputExtension \notin LegalOutputExts

FolderCheckFails == OutputResolved /\ args.output.dir \notin ExistingDirs

OverwriteCheckFails == OutputResolved /\ args.output \in fs /\ ~args.force

BandwidthCheckFails == ~InputIsBitstream /\ args.bandwidth \notin SupportedBy(args.hq)

-----------------------------------------------------------------------------
(* C1 *)

\* C1: a run that ends in a validation failure exits non-zero and has written
\* nothing; and while the output exists and force is unset, the run never
\* gets past the output check, so nothing is ever written.
C1_NoWriteOnValidationFailure ==
    /\ ValidationFailure =>
          /\ exit_code # 0
          /\ writes = <<>>
          /\ ~Invoked("save_audio") /\ ~Invoked("write_bytes") /\ ~Invoked("torch_save")
    /\ (OverwriteCheckFails /\ writes = <<>>) =>
          /\ BeforePipeline \/ pc = "exited"
          /\ pc = "exited" => exit_code # 0

\* a run rejected because its output exists and force is unset
C1_Witness ==
    /\ ValidationFailure
    /\ stderr = <<"output_file_exists">>
    /\ args.output \in fs
    /\ ~args.force

-----------------------------------------------------------------------------
(* C2 *)

\* the diagnostic of the first failing check, in the order of the claim
FirstInClaimedOrder ==
    IF InputCheckFails THEN "input_missing"
    ELSE IF FolderCheckFails THEN "output_folder_does_not_exist"
    ELSE IF OverwriteCheckFails THEN "output_file_exists"
    ELSE IF BandwidthCheckFails THEN "bandwidth_not_supported"
    ELSE IF ~InputIsBitstream /\ ExtensionCheckFails
         THEN "output_extension_must_be_wav_pt_or_ecdc"
    ELSE "none"

\* C2 as claimed: the checks run in the order input, output folder, overwrite,
\* bandwidth, extension, so a failed compression run prints the diagnostic of
\* the first of these that fails.
C2_ClaimedOrder ==
    (ValidationFailure /\ ~InputIsBitstream /\ FirstInClaimedOrder # "none") =>
        stderr = <<FirstInClaimedOrder>>

\* the diagnostic of the first failing check, in the order of the code
FirstInCodeOrder ==
    IF InputCheckFails THEN "input_missing"
    ELSE IF ExtensionCheckFails
         THEN IF InputIsBitstream THEN "output_extension_must_be_wav"
              ELSE "output_extension_must_be_wav_pt_or_ecdc"
    ELSE IF FolderCheckFails THEN "output_folder_does_not_exist"
    ELSE IF OverwriteCheckFails THEN "output_file_exists"
    ELSE IF BandwidthCheckFails THEN "bandwidth_not_supported"
    ELSE "none"

\* C2, amended: the checks run in the order input, extension of a given
\* output, output folder, overwrite, bandwidth (compression only); a failed
\* run prints exactly the diagnostic of the first that fails, and a run that
\* succeeds failed none of them.
C2_CheckOrder ==
    /\ ValidationFailure => stderr = <<FirstInCodeOrder>>
    /\ (pc = "exited" /\ exit_code = 0) =>
          /\ ~InputCheckFails
          /\ ~ExtensionCheckFails
          /\ ~FolderCheckFails
          /\ ~BandwidthCheckFails

\* a run that fails the extension check and the folder check, and reports
\* the extension
C2_Witness ==
    /\ ValidationFailure
    /\ ExtensionCheckFails
    /\ FolderCheckFails
    /\ stderr = <<"output_extension_must_be_wav_pt_or_ecdc">>

-----------------------------------------------------------------------------
(* C3 *)

\* the pipeline the extensions select
Classified ==
    IF InputIsBitstream THEN "Decompress"
    ELSE IF OutputExtension \in BitstreamExts THEN "CompressToBitstream"
    ELSE IF OutputExtension \in EmbeddingExts THEN "CompressToEmbedding"
    ELSE IF OutputExtension \in WavExts THEN "CompressRoundTrip"
    ELSE "rejected"

\* the pipeline the operations invoked so far belong to
PipelineRun ==
    IF ops = <<>> THEN "none"
    ELSE IF ops[1] = "read_bytes" THEN "Decompress"
    ELSE IF Invoked("write_bytes") THEN "CompressToBitstream"
    ELSE IF Invoked("encoder") \/ Invoked("torch_save") THEN "CompressToEmbedding"
    ELSE IF Invoked("decode") THEN "CompressRoundTrip"
    ELSE "Compress"

Pipelines == {"Decompress", "CompressToBitstream", "CompressToEmbedding", "CompressRoundTrip"}

\* the pipeline run is the one the extensions select, whatever their case
ModeFollowsExtensions ==
    /\ ops # <<>> => (InputIsBitstream <=> PipelineRun = "Decompress")
    /\ ops # <<>> => Classified \in Pipelines
    /\ PipelineRun \in Pipelines => PipelineRun = Classified
    /\ (pc = "exited" /\ exit_code = 0) => PipelineRun = Classified
    /\ (pc = "exited" /\ OutputResolved /\ Classified = "rejected") =>
          exit_code # 0 /\ ops = <<>>

\* a compression run that is given no output derives one ending in .ecdc
DefaultIsBitstream ==
    (/\ pc = "resolve_output"
     /\ ~InputIsBitstream
     /\ args.output = NoOutput
     /\ args'.output # NoOutput) =>
        ExtensionOf(args'.output.name) = <<".", "e", "c", "d", "c">>

\* C3: the input's extension (.ecdc in any case) selects Decompress; otherwise
\* the resolved output's extension selects the compression pipeline, an unset
\* output defaulting to exactly .ecdc and any other extension being rejected;
\* no run executes a pipeline other than the one so selected.
C3_ModeSelection == [](ModeFollowsExtensions) /\ [][DefaultIsBitstream]_vars

\* a finished decompression of an input whose extension is upper-case
C3_Witness ==
    /\ pc = "exited"
    /\ exit_code = 0
    /\ ExtensionOf(args.input.name) = <<".", "E", "C", "D", "C">>
    /\ PipelineRun = "Decompress"

-----------------------------------------------------------------------------
(* C4 *)

\* C4: from the position of the first read or codec operation on, the
\* output is resolved and its extension is legal for the mode (.wav for
\* decompression; .ecdc, .pt or .wav for compression); a given output with
\* any other extension ends the run non-zero with nothing read or invoked;
\* and the round trip's assertion never fails.
C4_LegalExtensionBeforeIO ==
    /\ (ops # <<>> \/ writes # <<>> \/ ~(BeforePipeline \/ pc = "exited")) =>
          OutputResolved /\ OutputExtension \in LegalOutputExts
    /\ (pc = "exited" /\ ExtensionCheckFails) => exit_code # 0 /\ ops = <<>>
    /\ ~Printed("AssertionError")

\* a decompression that has read its input, writing to a given upper-case .WAV
C4_Witness ==
    /\ Invoked("read_bytes")
    /\ InputIsBitstream
    /\ args.output.name = <<"a", ".", "W", "A", "V">>

-----------------------------------------------------------------------------
(* C5 *)

\* C5: in a compression run whose bandwidth the selected model does not
\* support, the input is never loaded, resampled or encoded, the model's
\* target bandwidth is never set to that value, nothing is written and the
\* run ends non-zero.
C5_UnsupportedBandwidthRejected ==
    BandwidthCheckFails =>
        /\ ~Invoked("load")
        /\ ~Invoked("convert_audio")
        /\ ~Invoked("compress") /\ ~Invoked("compress_lm")
        /\ ~Invoked("encoder")
        /\ ~Invoked("set_target_bandwidth")
        /\ model.target_bandwidth # args.bandwidth
        /\ writes = <<>>
        /\ pc = "exited" => exit_code # 0

\* 1.5 kbps with the 48 kHz model, rejected by the bandwidth check
C5_Witness ==
    /\ pc = "exited"
    /\ stderr = <<"bandwidth_not_supported">>
    /\ args.bandwidth = 15
    /\ args.hq
    /\ model.name = "encodec_48khz"

-----------------------------------------------------------------------------
(* C6 *)

\* C6 as claimed: a run that ends in a validation failure has instantiated no
\* model and invoked no operation.
C6_ClaimedNoModelOnFailure ==
    ValidationFailure => model = NoModel /\ ops = <<>>

PipelineEntered ==
    \/ Invoked("read_bytes")
    \/ Invoked("load")
    \/ Invoked("convert_audio")
    \/ Invoked("compress") \/ Invoked("compress_lm")
    \/ Invoked("encoder")
    \/ Invoked("decode")

\* C6, amended: a run that ends in a validation failure has invoked no read,
\* load, resample, encode or decode and written nothing; it has instantiated
\* a model only when the failure is the bandwidth check, which reads the
\* instantiated model's bandwidths; the model is built only after every other
\* check has passed, and the pipeline is entered only after every check has.
C6_ChecksBeforePipeline ==
    /\ ValidationFailure => ~PipelineEntered /\ writes = <<>>
    /\ (ValidationFailure /\ (model # NoModel \/ ops # <<>>)) =>
          stderr = <<"bandwidth_not_supported">> /\ ops = <<"model">>
    /\ (model # NoModel \/ PipelineEntered) =>
          /\ ~InputCheckFails
          /\ OutputResolved
          /\ ~ExtensionCheckFails
          /\ ~FolderCheckFails
          /\ writes = <<>> => ~OverwriteCheckFails
    /\ PipelineEntered => ~BandwidthCheckFails

\* a run rejected by the bandwidth check, with its model instantiated
C6_Witness ==
    /\ ValidationFailure
    /\ stderr = <<"bandwidth_not_supported">>
    /\ model # NoModel
    /\ ops = <<"model">>

-----------------------------------------------------------------------------
(* C7 *)

\* a name without its final extension
StemOf(name) == SubSeq(name, 1, Len(name) - Len(ExtensionOf(name)))

\* C7: a decompression that is given no output derives, in the input's
\* directory, the name <input-stem><decompress-suffix>.wav: nothing of the
\* stem or of the suffix is dropped, whatever dots they contain.
C7_DefaultDecompressName ==
    [][(/\ pc = "resolve_output"
        /\ InputIsBitstream
        /\ args.output = NoOutput
        /\ args'.output # NoOutput) =>
            args'.output =
                [dir |-> args.input.dir,
                 name |-> StemOf(args.input.name) \o args.decompress_suffix
                              \o <<".", "w", "a", "v">>]]_vars

-----------------------------------------------------------------------------
(* C8 *)

\* C8: a compression run whose output is a .pt never invokes decode and never
\* writes a bitstream or a .ecdc file; unless a check rejects it, it ends
\* with status 0 having written exactly the embedding, at the output path.
C8_EmbeddingOnly ==
    (~InputIsBitstream /\ OutputResolved /\ OutputExtension \in EmbeddingExts) =>
        /\ ~Invoked("decode")
        /\ ~Invoked("write_bytes")
        /\ ~Invoked("save_audio")
        /\ \A i \in DOMAIN writes :
              /\ writes[i].kind = "embedding"
              /\ ExtensionOf(writes[i].path.name) \notin BitstreamExts
        /\ (pc = "exited" /\ ~ValidationFailure) =>
              /\ exit_code = 0
              /\ writes = <<[path |-> args.output, kind |-> "embedding"]>>
              /\ args.output \in fs

\* a finished run that wrote an embedding to a.pt
C8_Witness ==
    /\ pc = "exited"
    /\ exit_code = 0
    /\ args.output.name = <<"a", ".", "p", "t">>
    /\ Wrote("embedding")
    /\ Invoked("torch_save")

-----------------------------------------------------------------------------
(* C9 *)

\* C9: after a decode the clipping diagnostic runs; it warns exactly when
\* rescale is unset and the peak exceeds 0.99; warning or not, the run goes on
\* to write the audio output and to exit 0; the bitstream and embedding
\* pipelines run no clipping diagnostic and print no warning.
C9_ClippingWarningNonFatal ==
    /\ Invoked("check_clipping") => (Printed("clipping") <=> (~args.rescale /\ mx > 99))
    /\ ~Invoked("check_clipping") => ~Printed("clipping")
    /\ Invoked("save_audio") => Invoked("decode") /\ Invoked("check_clipping")
    /\ (pc = "exited" /\ Invoked("decode")) =>
          /\ exit_code = 0
          /\ Invoked("check_clipping")
          /\ writes = <<[path |-> args.output, kind |-> "audio"]>>
    /\ (Invoked("write_bytes") \/ Invoked("torch_save")) => ~Invoked("check_clipping")

\* a finished run that warned of clipping and still wrote its audio output
C9_Witness ==
    /\ pc = "exited"
    /\ exit_code = 0
    /\ mx = 120
    /\ ~args.rescale
    /\ stderr = <<"clipping">>
    /\ Wrote("audio")

-----------------------------------------------------------------------------
(* C10 *)

\* the operations invoked, without the model's construction and
\* configuration, the encode written the same with and without --lm
PipelineOps ==
    LET kept == SelectSeq(ops, LAMBDA o : o \notin {"model", "set_target_bandwidth"})
    IN  [i \in DOMAIN kept |-> IF kept[i] = "compress_lm" THEN "compress" ELSE kept[i]]

\* the operations the claim lists for each pipeline
ListedOps(pipeline) ==
    CASE pipeline = "Decompress" ->
            <<"read_bytes", "decode", "check_clipping", "save_audio">>
      [] pipeline = "CompressToBitstream" ->
            <<"load", "convert_audio", "compress", "write_bytes">>
      [] pipeline = "CompressToEmbedding" ->
            <<"load", "convert_audio", "encoder", "torch_save">>
      [] pipeline = "CompressRoundTrip" ->
            <<"load", "convert_audio", "compress", "decode", "check_clipping", "save_audio">>
      [] OTHER -> <<>>

\* C10: a run that succeeds has invoked exactly the operations listed for its
\* pipeline, in their order; in particular the embedding pipeline invokes
\* neither the full encode nor decode.
C10_ListedOperationsOnly ==
    (pc = "exited" /\ exit_code = 0) => PipelineOps = ListedOps(Classified)

====
